---- MODULE Spec2Model ----
(***************************************************************************)
(* Offline mutation queue, identity reconciliation and background sync of  *)
(* the todo-app client (utils/offlineQueue, utils/syncManager,             *)
(* services/api) against the task REST controller of the backend.          *)
(*                                                                         *)
(* Atomicity: JavaScript runs each stretch of code between two awaits      *)
(* without interruption.  A step of the model is one such stretch, where   *)
(* awaits of AsyncStorage that only read are folded into the stretch that  *)
(* follows them.  The awaits kept as interleaving points are the remote    *)
(* HTTP calls of the drain loop and the read/write pair of                 *)
(* addToOfflineQueue.                                                      *)
(***************************************************************************)
EXTENDS Integers, Sequences, FiniteSets, Bags, TLC

\* ---------------------------------------------------------------- bounds
MaxOps == 2        \* offline mutations issued in a run
MaxPasses == 2     \* drain passes (processOfflineQueue with work) suspended at one time
MaxClock == 1      \* Date.now() ranges over 0..MaxClock
MaxServer == 3     \* documents the server collection may hold

\* ----------------------------------------------------------- data domains
NoDate == [kind |-> "undefined", v |-> "undefined"]   \* absent dueDate of a Partial<TaskForm>
NoTitle == "undefined"         \* absent title of a Partial<TaskForm>
NoId == <<"none", 0>>          \* absent _id of a response
Instants == {"d1"}             \* due instants
Callers == {1, 2}              \* activation records of concurrently running thunks

DateObj(v) == [kind |-> "Date", v |-> v]
IsoStr(v) == [kind |-> "iso", v |-> v]
TempId(n) == <<"temp", n>>
SrvId(n) == <<"srv", n>>

CreateTitles == {"a"}          \* titles given to new tasks
TaskForms == [title : CreateTitles, dueDate : {DateObj(v) : v \in Instants}]
UpdateTitles == {"b"}          \* titles given by updates
UpdateForms == {[title |-> t, dueDate |-> NoDate] : t \in UpdateTitles}
               \cup {[title |-> NoTitle, dueDate |-> DateObj(v)] : v \in Instants}

Range(s) == {s[i] : i \in 1..Len(s)}

\* ------------------------------------------------------------ conversions
\* Date.prototype.toISOString
toISOString(d) == IsoStr(d.v)

\* JSON.stringify followed by JSON.parse of one value that may be a Date:
\* a Date comes back as its ISO string, a string as itself.
jsonDate(d) == IF d = NoDate THEN NoDate ELSE IsoStr(d.v)

\* JSON.parse(JSON.stringify(operation))
jsonOperation(op) ==
    CASE op.type = "CREATE" -> [op EXCEPT !.data.dueDate = jsonDate(@)]
      [] op.type = "UPDATE" -> [op EXCEPT !.data.updates.dueDate = jsonDate(@)]
      [] OTHER -> op

\* JSON.parse(JSON.stringify(queue))
jsonQueue(queue) == [i \in 1..Len(queue) |-> jsonOperation(queue[i])]

\* ------------------------------------------------------------------ state
VARIABLES
    now,            \* the last value Date.now() returned
    offlineQueue,   \* AsyncStorage['offlineQueue'] (parsed; an absent key reads as [])
    cachedTasks,    \* AsyncStorage['cachedTasks'] (parsed; an absent key reads as [])
    tempTasks,      \* AsyncStorage['tempTasks'] (parsed; an absent key reads as [])
    isOnline,       \* syncManager: let isOnline
    syncInterval,   \* syncManager: let syncInterval (TRUE: a timer is set)
    server,         \* backend Task collection: document n has _id SrvId(n)
    calls,          \* addToOfflineQueue calls suspended between read and write
    passes,         \* processOfflineQueue activations suspended on a remote call (a bag)
    returned,       \* history: the pass that did its final writes in the step just taken
    opCount,        \* number of offline mutations issued (also names them)
    enqLog,         \* history: operations as built by addToOfflineQueue, in order of their write (kept while sequential)
    sequential,     \* history: no two enqueues overlapped and no pass rewrote the queue
    stateTasks,     \* Redux state.tasks: the _ids of the tasks the screens show, in order
    timers,         \* the intervals set with setInterval and not cleared (their number)
    effect,         \* history: what the step just taken reported and which calls it made
    collection,     \* ranking: the tasks handed to both ranking implementations
    sorted,         \* ranking: what smartSortTasks returned (<<>> before the call)
    aggregated      \* ranking: what getSmartSortedTasks returned (<<>> before the call)

vars == <<now, offlineQueue, cachedTasks, tempTasks, isOnline, syncInterval,
          server, calls, passes, returned, opCount, enqLog, sequential,
          stateTasks, timers, effect, collection, sorted, aggregated>>

rankVars == <<collection, sorted, aggregated>>

\* a step that was no connectivity event and in which no offline mutation
\* threw, no storage write failed and processOfflineQueue was not called
NoEffect == [event |-> "none", error |-> "none", writeFailed |-> FALSE, drains |-> 0]

IdleCall == [pc |-> "idle"]
IdlePass == [pc |-> "idle"]

\* ---------------------------------------------------------- offlineQueue.ts
\* The three stored values are kept in parsed form; every read of the code
\* maps an absent key to the empty list, so absent and "[]" are one value.
\* getOfflineQueue: queueData ? JSON.parse(queueData) : []
getOfflineQueue(stored) == stored

\* getTempTasks
getTempTasks(stored) == stored

\* const tasks = cachedTasks ? JSON.parse(cachedTasks) : []
parseCachedTasks(stored) == stored

\* addToOfflineQueue, lines 26-30: the operation gets id and timestamp from the clock.
\* uid is a history field naming the enqueue call; the program never reads it.
newOperation(operation, clock, uid) ==
    [id |-> clock, timestamp |-> clock, type |-> operation.type,
     data |-> operation.data, uid |-> uid]

\* a queue written with the new operation in front (unshift for push)
pushAndStore_unshift(queue, op) == jsonQueue(<<op>> \o queue)

\* addToOfflineQueue, lines 32-33: queue.push(newOperation); setItem(stringify(queue))
pushAndStore(queue, op) == jsonQueue(Append(queue, op))

\* the task id an operation is about
opTaskId(op) == IF op.type = "CREATE" THEN op.data.tempId ELSE op.data.id


\* createTaskOffline, lines 71-85: the task shown while the CREATE is pending
newTask(taskData, clock) ==
    [_id |-> TempId(clock), title |-> taskData.title,
     dueDate |-> toISOString(taskData.dueDate)]

\* updateTaskOffline, lines 127-132: {...task, ...updates, dueDate: ...}
mergeUpdates(task, updates) ==
    [task EXCEPT !.title = IF updates.title = NoTitle THEN @ ELSE updates.title,
                 !.dueDate = IF updates.dueDate # NoDate
                             THEN toISOString(updates.dueDate) ELSE @]

\* a lookup that falls back to the first entry when the id is not found
findIndex_orFirst(tasks, taskId) ==
    IF \E i \in 1..Len(tasks) : tasks[i]._id = taskId
    THEN CHOOSE i \in 1..Len(tasks) :
            /\ tasks[i]._id = taskId
            /\ \A j \in 1..(i-1) : tasks[j]._id # taskId
    ELSE IF Len(tasks) > 0 THEN 1 ELSE 0

\* tasks.findIndex(t => t._id === taskId); 0 stands for -1
findIndex(tasks, taskId) ==
    IF \E i \in 1..Len(tasks) : tasks[i]._id = taskId
    THEN CHOOSE i \in 1..Len(tasks) :
            /\ tasks[i]._id = taskId
            /\ \A j \in 1..(i-1) : tasks[j]._id # taskId
    ELSE 0

\* deleteTaskOffline, line 162: tasks.filter(t => t._id !== taskId)
filterOutTask(tasks, taskId) == SelectSeq(tasks, LAMBDA t : t._id # taskId)

\* a reconciliation that tests mappings[task.id], a field no task has:
\* nothing matches and the cache is left as it is
updateCachedTasksWithRealIds_wrongField(stored, mappings) ==
    [i \in 1..Len(stored) |->
        IF NoId \in DOMAIN mappings
        THEN [stored[i] EXCEPT !._id = mappings[NoId]]
        ELSE stored[i]]

\* a reconciliation that keeps the temporary entry and adds a copy with the real id
updateCachedTasksWithRealIds_addsCopy(stored, mappings) ==
    stored \o [i \in 1..Len(SelectSeq(stored, LAMBDA t : t._id \in DOMAIN mappings)) |->
                 [SelectSeq(stored, LAMBDA t : t._id \in DOMAIN mappings)[i]
                    EXCEPT !._id = mappings[@]]]

\* updateCachedTasksWithRealIds, lines 305-328: the new value of
\* AsyncStorage['cachedTasks'] (unchanged when the key is absent or no id matches)
updateCachedTasksWithRealIds(stored, mappings) ==
    [i \in 1..Len(stored) |->
        IF stored[i]._id \in DOMAIN mappings
        THEN [stored[i] EXCEPT !._id = mappings[@]]
        ELSE stored[i]]

\* a final write that keeps every operation of the snapshot
remainingQueue_keepsAll(queue, successfulOperations) == queue

\* processOfflineQueue, line 282: queue.filter(op => !successfulOperations.includes(op.id))
remainingQueue(queue, successfulOperations) ==
    SelectSeq(queue, LAMBDA op : op.id \notin Range(successfulOperations))

\* ------------------------------------------------- api.ts and the backend
\* A remote call either reaches the controller and is answered ("ok"), or
\* fails in transport or is rejected by validation ("fail").
Outcomes == {"ok", "fail"}

existsOnServer(srv, taskId) ==
    /\ taskId[1] = "srv"
    /\ taskId[2] \in 1..Len(srv)
    /\ srv[taskId[2]].alive

Failure(srv) == [success |-> FALSE, _id |-> NoId, server |-> srv]

\* Task.ts, lines 68-77: TaskSchema.pre('save'); completedAt is "null" or "date"
preSave(doc, statusModified) ==
    IF statusModified
    THEN IF doc.status = "completed" /\ doc.completedAt = "null"
         THEN [doc EXCEPT !.completedAt = "date"]
         ELSE IF doc.status # "completed"
              THEN [doc EXCEPT !.completedAt = "null"]
              ELSE doc
    ELSE doc

\* taskAPI.createTask + controller createTask: the payload's dueDate is
\* converted whether it is a Date or a string; the saved document is returned.
apiCreateTask(srv, taskData, outcome) ==
    IF outcome = "ok"
    THEN [success |-> TRUE, _id |-> SrvId(Len(srv) + 1),
          server |-> Append(srv, preSave([title |-> taskData.title,
                                          dueDate |-> taskData.dueDate.v,
                                          status |-> "pending",
                                          completedAt |-> "null",
                                          alive |-> TRUE, uid |-> 0], TRUE))]
    ELSE Failure(srv)

\* taskAPI.updateTask: updateData.dueDate.toISOString() throws a TypeError on a
\* string, which the catch turns into {success: false} before any request.
updateThrows(updates) == updates.dueDate # NoDate /\ updates.dueDate.kind # "Date"

\* taskAPI.updateTask + controller updateTask (findOneAndUpdate, 404 when absent)
apiUpdateTask(srv, taskId, updates, outcome) ==
    IF updateThrows(updates) THEN Failure(srv)
    ELSE IF outcome = "ok" /\ existsOnServer(srv, taskId)
    THEN [success |-> TRUE, _id |-> taskId,
          server |-> [srv EXCEPT ![taskId[2]] =
                        [@ EXCEPT !.title = IF updates.title = NoTitle THEN @ ELSE updates.title,
                                  !.dueDate = IF updates.dueDate = NoDate THEN @
                                              ELSE updates.dueDate.v]]]
    ELSE Failure(srv)

\* taskAPI.deleteTask + controller deleteTask (findOneAndDelete, 404 when absent)
apiDeleteTask(srv, taskId, outcome) ==
    IF outcome = "ok" /\ existsOnServer(srv, taskId)
    THEN [success |-> TRUE, _id |-> taskId,
          server |-> [srv EXCEPT ![taskId[2]].alive = FALSE]]
    ELSE Failure(srv)

\* processOfflineQueue, lines 225-268: the call made for one queued operation
replay(srv, op, outcome) ==
    CASE op.type = "CREATE" ->
            apiCreateTask(srv, [title |-> op.data.title, dueDate |-> op.data.dueDate], outcome)
      [] op.type = "UPDATE" -> apiUpdateTask(srv, op.data.id, op.data.updates, outcome)
      [] OTHER -> apiDeleteTask(srv, op.data.id, outcome)

\* history: the document a replayed CREATE made is marked with the uid of the
\* enqueue call the CREATE came from (0: not made by a replay)
madeBy(op, response) ==
    IF op.type = "CREATE" /\ response.success
    THEN [response.server EXCEPT ![Len(response.server)].uid = op.uid]
    ELSE response.server

\* history: the remote turned down a request that named an existing task
\* (or a create), i.e. it did not behave as an accepting remote
refusedBy(srv, op, outcome) ==
    /\ outcome = "fail"
    /\ CASE op.type = "CREATE" -> TRUE
         [] op.type = "UPDATE" -> ~updateThrows(op.data.updates)
                                  /\ existsOnServer(srv, op.data.id)
         [] OTHER -> existsOnServer(srv, op.data.id)


\* --------------------------------------------------------------- initial
\* An install whose cache holds one task fetched from the server in an
\* earlier session; the device is offline and nothing is queued.
InitDevice ==
    /\ now = 0
    /\ offlineQueue = <<>>
    /\ tempTasks = <<>>
    /\ isOnline = FALSE
    /\ syncInterval = FALSE
    /\ server = <<[title |-> "a", dueDate |-> "d1", status |-> "pending",
                    completedAt |-> "null", alive |-> TRUE, uid |-> 0]>>
    /\ cachedTasks = <<[_id |-> SrvId(1), title |-> "a", dueDate |-> IsoStr("d1")]>>
    /\ calls = [c \in Callers |-> IdleCall]
    /\ passes = EmptyBag
    /\ returned = IdlePass
    /\ opCount = 0
    /\ enqLog = <<>>
    /\ sequential = TRUE
    /\ stateTasks = <<SrvId(1)>>
    /\ timers = 0
    /\ effect = NoEffect

\* nothing has been ranked
Init ==
    /\ InitDevice
    /\ collection = <<>>
    /\ sorted = <<>>
    /\ aggregated = <<>>

\* ------------------------------------------------------- offline mutations
\* Date.now() returns a value not below the one it returned before.  The
\* values are only stringified and compared for equality, so milliseconds
\* in which nothing is read are left out: a read is in the millisecond of
\* the read before it or in the next one.
dateNow(clock) == clock \in {now, now + 1} /\ clock <= MaxClock /\ now' = clock

\* a call runs in the first activation record that is not in use
freeRecord(c) ==
    /\ calls[c].pc = "idle"
    /\ \A o \in Callers : o < c => calls[o].pc # "idle"

\* addToOfflineQueue up to its await of setItem: the queue is read and the
\* call is suspended holding what it read.
beginAddToOfflineQueue(c, operation) ==
    /\ calls' = [calls EXCEPT ![c] = [pc |-> "enq",
                                      queue |-> getOfflineQueue(offlineQueue),
                                      operation |-> operation,
                                      uid |-> opCount + 1]]
    /\ opCount' = opCount + 1
    /\ sequential' = (sequential /\ \A o \in Callers : calls[o].pc = "idle")
    /\ enqLog' = IF sequential' THEN enqLog ELSE <<>>

\* taskSlice.ts, extraReducers: what createTask.fulfilled (unshift),
\* updateTask.fulfilled (the entry is replaced by one with the same _id) and
\* deleteTask.fulfilled (filter) do to the _ids of state.tasks when the
\* thunk's offline branch returns
fulfilled(list, operation) ==
    CASE operation.type = "CREATE" -> <<operation.data.tempId>> \o list
      [] operation.type = "DELETE" ->
            SelectSeq(list, LAMBDA id : id # operation.data.id)
      [] OTHER -> list

\* addToOfflineQueue, lines 26-33: build the operation, push, write the queue;
\* the offline mutation that called it returns and its thunk is fulfilled
addToOfflineQueue(c, clock) ==
    /\ calls[c].pc = "enq"
    /\ dateNow(clock)
    /\ LET op == newOperation(calls[c].operation, clock, calls[c].uid) IN
        /\ offlineQueue' = pushAndStore(calls[c].queue, op)
        /\ enqLog' = IF sequential THEN Append(enqLog, op) ELSE <<>>
    /\ calls' = [calls EXCEPT ![c] = IdleCall]
    /\ stateTasks' = fulfilled(stateTasks, calls[c].operation)
    /\ returned' = IdlePass
    /\ effect' = NoEffect
    /\ UNCHANGED rankVars
    /\ UNCHANGED <<cachedTasks, tempTasks, isOnline, syncInterval, server,
                   passes, opCount, sequential, timers>>

createTaskOffline(c, taskData, clock) ==
    /\ freeRecord(c)
    /\ opCount < MaxOps
    /\ dateNow(clock)
    /\ LET task == newTask(taskData, clock) IN
        /\ tempTasks' = Append(getTempTasks(tempTasks), task)
        /\ cachedTasks' = <<task>> \o parseCachedTasks(cachedTasks)
        /\ beginAddToOfflineQueue(c, [type |-> "CREATE",
                                      data |-> [title |-> taskData.title,
                                                dueDate |-> taskData.dueDate,
                                                tempId |-> task._id]])
    /\ returned' = IdlePass
    /\ effect' = NoEffect
    /\ UNCHANGED rankVars
    /\ UNCHANGED <<offlineQueue, isOnline, syncInterval, server, passes, stateTasks, timers>>

\* updateTaskOffline, lines 119-151: an id the cache does not hold makes the
\* call throw before anything is written
updateTaskOffline(c, taskId, updates) ==
    /\ freeRecord(c)
    /\ opCount < MaxOps
    /\ LET tasks == parseCachedTasks(cachedTasks)
           taskIndex == findIndex(tasks, taskId) IN
        IF taskIndex # 0
        THEN /\ cachedTasks' = [tasks EXCEPT ![taskIndex] = mergeUpdates(@, updates)]
             /\ beginAddToOfflineQueue(c, [type |-> "UPDATE",
                                           data |-> [id |-> taskId, updates |-> updates]])
             /\ effect' = NoEffect
        ELSE /\ effect' = [NoEffect EXCEPT !.error = "Task not found"]
             /\ UNCHANGED <<cachedTasks, calls, opCount, sequential, enqLog>>
    /\ returned' = IdlePass
    /\ UNCHANGED rankVars
    /\ UNCHANGED <<now, offlineQueue, tempTasks, isOnline, syncInterval, server,
                   passes, stateTasks, timers>>

deleteTaskOffline(c, taskId) ==
    /\ freeRecord(c)
    /\ opCount < MaxOps
    /\ cachedTasks' = filterOutTask(parseCachedTasks(cachedTasks), taskId)
    /\ beginAddToOfflineQueue(c, [type |-> "DELETE", data |-> [id |-> taskId]])
    /\ returned' = IdlePass
    /\ effect' = NoEffect
    /\ UNCHANGED rankVars
    /\ UNCHANGED <<now, offlineQueue, tempTasks, isOnline, syncInterval, server,
                   passes, stateTasks, timers>>

\* the ids of the cached tasks
cachedIds == {t._id : t \in Range(parseCachedTasks(cachedTasks))}

\* the ids a thunk can be dispatched with: the screens show state.tasks,
\* which fetchTasks fills from the cache
nameableIds == cachedIds \cup Range(stateTasks)

\* ----------------------------------------------------------------- drain
\* processOfflineQueue, lines 208-219: the snapshot and the empty bookkeeping;
\* the first remote call is then in flight
startPass(stored) ==
    [pc |-> "await", queue |-> getOfflineQueue(stored), i |-> 1,
     successfulOperations |-> <<>>, tempTaskMappings |-> <<>>,
     res |-> <<>>, refused |-> FALSE]

\* an activation is suspended on its await / resumes from it
suspend(bag, pass) == bag (+) SetToBag({pass})
resume(bag, pass) == bag (-) SetToBag({pass})

\* processOfflineQueue is entered: an empty queue returns at once, otherwise
\* a pass starts and is suspended on its first remote call
enterProcessOfflineQueue ==
    IF Len(getOfflineQueue(offlineQueue)) = 0
    THEN passes' = passes
    ELSE /\ BagCardinality(passes) < MaxPasses
         /\ passes' = suspend(passes, startPass(offlineQueue))

\* a performSync that returns without calling processOfflineQueue
performSync_returns(online, sofar) == passes' = passes /\ effect' = sofar

\* performSync, lines 68-83 (sofar is history: the effect of the step up to
\* this call)
performSync(online, sofar) ==
    IF ~online
    THEN passes' = passes /\ effect' = sofar
    ELSE enterProcessOfflineQueue /\ effect' = [sofar EXCEPT !.drains = @ + 1]

\* processOfflineQueue, lines 234-241, 251-252, 261-262: bookkeeping of one response
\* (res is history: the outcome of every call of the pass)
recordResponse(pass, response) ==
    LET op == pass.queue[pass.i] IN
    [pass EXCEPT
        !.successfulOperations = IF response.success THEN Append(@, op.id) ELSE @,
        !.tempTaskMappings = IF op.type = "CREATE" /\ response.success
                                /\ response._id # NoId
                             THEN (op.data.tempId :> response._id) @@ @
                             ELSE @,
        !.res = Append(@, IF response.success THEN "ok" ELSE "fail"),
        !.i = @ + 1]

\* a loop whose catch is outside it: the first failure ends the pass
moreToReplay_stopOnFailure(pass, response) ==
    response.success /\ pass.i < Len(pass.queue)

\* for (const operation of queue) with the try/catch inside the loop:
\* the loop goes on to the next entry whatever the response was
moreToReplay(pass, response) == pass.i < Len(pass.queue)

\* processOfflineQueue, lines 221-296: the response to the call in flight
\* arrives; the next call is issued, or the pass does its final writes
processOfflineQueue(pass, outcome) ==
    /\ BagIn(pass, passes)
    /\ LET op == pass.queue[pass.i]
           response == replay(server, op, outcome)
           rec == [recordResponse(pass, response) EXCEPT
                      !.refused = @ \/ refusedBy(server, op, outcome)]
           remaining == remainingQueue(rec.queue, rec.successfulOperations)
       IN
        /\ outcome = "ok" => isOnline
        /\ (outcome = "ok" /\ op.type = "CREATE") => Len(server) < MaxServer
        /\ server' = madeBy(op, response)
        /\ IF moreToReplay(pass, response)
           THEN /\ passes' = suspend(resume(passes, pass), rec)
                /\ returned' = IdlePass
                /\ UNCHANGED <<offlineQueue, cachedTasks, tempTasks, sequential, enqLog>>
           ELSE /\ passes' = resume(passes, pass)
                /\ returned' = [rec EXCEPT !.pc = "done"]
                /\ cachedTasks' = IF DOMAIN rec.tempTaskMappings # {}
                                  THEN updateCachedTasksWithRealIds(cachedTasks,
                                                                   rec.tempTaskMappings)
                                  ELSE cachedTasks
                /\ IF Len(rec.successfulOperations) > 0
                   THEN /\ offlineQueue' = remaining
                        /\ tempTasks' = IF Len(remaining) = 0 THEN <<>> ELSE tempTasks
                        /\ sequential' = FALSE
                        /\ enqLog' = <<>>
                   ELSE UNCHANGED <<offlineQueue, tempTasks, sequential, enqLog>>
    /\ effect' = NoEffect
    /\ UNCHANGED rankVars
    /\ UNCHANGED <<now, isOnline, syncInterval, calls, opCount, stateTasks, timers>>

\* ---------------------------------------------------------- syncManager.ts
\* a startPeriodicSync that sets an interval whether or not one is running
startPeriodicSync_noGuard(sm) ==
    [syncInterval |-> TRUE, timers |-> sm.timers + 1]

\* startPeriodicSync, lines 45-53: syncInterval and the live intervals afterwards
startPeriodicSync(sm) ==
    IF sm.syncInterval THEN sm
    ELSE [syncInterval |-> TRUE, timers |-> sm.timers + 1]

\* stopPeriodicSync, lines 58-63: clearInterval ends the interval syncInterval holds
stopPeriodicSync(sm) ==
    IF sm.syncInterval THEN [syncInterval |-> FALSE, timers |-> sm.timers - 1]
    ELSE sm

\* the NetInfo listener installed by initializeSyncManager, lines 19-37.
\* Every installed listener runs this body on the same module variables: an
\* event delivered to several listeners is as many runs with one isConnected.
netInfoListener(isConnected) ==
    /\ isOnline' = isConnected
    /\ LET delivered == [NoEffect EXCEPT !.event = "connectivity"] IN
          IF isConnected /\ ~isOnline
          THEN performSync(isConnected, delivered)
          ELSE passes' = passes /\ effect' = delivered
    /\ LET sm == [syncInterval |-> syncInterval, timers |-> timers]
           after == IF isConnected THEN startPeriodicSync(sm) ELSE stopPeriodicSync(sm)
       IN /\ syncInterval' = after.syncInterval
          /\ timers' = after.timers
    /\ returned' = IdlePass
    /\ UNCHANGED rankVars
    /\ UNCHANGED <<now, offlineQueue, cachedTasks, tempTasks, server, calls,
                   opCount, enqLog, sequential, stateTasks>>

\* the setInterval callback of startPeriodicSync, lines 48-52
intervalTick ==
    /\ timers > 0
    /\ isOnline
    /\ performSync(isOnline, NoEffect)
    /\ returned' = IdlePass
    /\ UNCHANGED rankVars
    /\ UNCHANGED <<now, offlineQueue, cachedTasks, tempTasks, isOnline,
                   syncInterval, server, calls, opCount, enqLog, sequential,
                   stateTasks, timers>>

\* forceSyncNow, lines 124-128
forceSyncNow ==
    /\ isOnline
    /\ performSync(isOnline, NoEffect)
    /\ returned' = IdlePass
    /\ UNCHANGED rankVars
    /\ UNCHANGED <<now, offlineQueue, cachedTasks, tempTasks, isOnline,
                   syncInterval, server, calls, opCount, enqLog, sequential,
                   stateTasks, timers>>

Next ==
    \/ \E c \in Callers, taskData \in TaskForms, clock \in 0..MaxClock :
          createTaskOffline(c, taskData, clock)
    \/ \E c \in Callers, taskId \in nameableIds, updates \in UpdateForms :
          updateTaskOffline(c, taskId, updates)
    \/ \E c \in Callers, taskId \in nameableIds : deleteTaskOffline(c, taskId)
    \/ \E c \in Callers, clock \in 0..MaxClock : addToOfflineQueue(c, clock)
    \/ \E isConnected \in BOOLEAN : netInfoListener(isConnected)
    \/ intervalTick
    \/ forceSyncNow
    \/ \E pass \in BagToSet(passes), outcome \in Outcomes :
          processOfflineQueue(pass, outcome)

Spec == Init /\ [][Next]_vars

\* The same program in an environment that starts no second drain: no
\* connectivity change, interval tick or forceSyncNow call that would enter
\* processOfflineQueue arrives while a pass is suspended on a remote call.
\* Offline mutations still overlap each other and the pass.
onePass == BagCardinality(passes') <= 1

NextOnePass ==
    \/ \E c \in Callers, taskData \in TaskForms, clock \in 0..MaxClock :
          createTaskOffline(c, taskData, clock)
    \/ \E c \in Callers, taskId \in nameableIds, updates \in UpdateForms :
          updateTaskOffline(c, taskId, updates)
    \/ \E c \in Callers, taskId \in nameableIds : deleteTaskOffline(c, taskId)
    \/ \E c \in Callers, clock \in 0..MaxClock : addToOfflineQueue(c, clock)
    \/ \E isConnected \in BOOLEAN : netInfoListener(isConnected) /\ onePass
    \/ intervalTick /\ onePass
    \/ forceSyncNow /\ onePass
    \/ \E pass \in BagToSet(passes), outcome \in Outcomes :
          processOfflineQueue(pass, outcome)

SpecOnePass == Init /\ [][NextOnePass]_vars


\* ------------------------------------------------------------ properties
\* the step in which a pass does its final writes and returns
finishes == returned'.pc = "done"

started(pass) == pass.pc # "idle"

\* the passes suspended on a call and the one that has just returned
observed == BagToSet(passes) \cup {returned}

uidsOf(queue) == {queue[i].uid : i \in 1..Len(queue)}

\* the entry's replay call sends an HTTP request (a queued UPDATE whose
\* dueDate came back from storage as a string fails before any request)
sendsRequest(op) == op.type # "UPDATE" \/ ~updateThrows(op.data.updates)

\* C1: an operation enqueued while a drain pass is suspended on a remote call
\* is still in the persisted queue when that pass finishes.
C1_EnqueuedDuringDrainKept ==
    [][finishes =>
          \A u \in uidsOf(offlineQueue) \ uidsOf(returned'.queue) :
              u \in uidsOf(offlineQueue')]_vars

\* C2: at most one drain pass is active at any time.
C2_AtMostOneDrain == BagCardinality(passes) <= 1

\* C3: within a pass, once the replay of an operation has failed, no remote
\* call is issued for a later queued UPDATE or DELETE of the same task id.
C3_FailureBlocksSameTask ==
    \A pass \in observed :
        started(pass) =>
            \A j \in 1..Len(pass.res) :
                \A k \in (j + 1)..Len(pass.queue) :
                    ( /\ pass.res[j] = "fail"
                      /\ pass.queue[k].type # "CREATE"
                      /\ opTaskId(pass.queue[j]) = opTaskId(pass.queue[k])
                      /\ sendsRequest(pass.queue[k]) )
                    => ~( k <= Len(pass.res)
                          \/ (k = pass.i /\ pass.pc = "await") )

\* the document carries the values of the updates
carries(doc, updates) ==
    /\ doc.alive
    /\ updates.title # NoTitle => doc.title = updates.title
    /\ updates.dueDate # NoDate => doc.dueDate = updates.dueDate.v

\* C4: a pass over exactly CREATE(t), UPDATE(t), against a remote that turns
\* down no request naming an existing task, leaves the created remote task
\* carrying the update's values and the queue empty.
C4_UpdateOfPendingCreateReachesServer ==
    [][( /\ finishes
         /\ Len(returned'.queue) = 2
         /\ returned'.queue[1].type = "CREATE"
         /\ returned'.queue[2].type = "UPDATE"
         /\ returned'.queue[2].data.id = returned'.queue[1].data.tempId
         /\ ~returned'.refused )
       => /\ offlineQueue' = <<>>
          /\ returned'.queue[1].data.tempId \in DOMAIN returned'.tempTaskMappings
          /\ carries(server'[returned'.tempTaskMappings[
                                returned'.queue[1].data.tempId][2]],
                     returned'.queue[2].data.updates)]_vars

\* C5: after a pass that confirmed the CREATE of temporary id t, no UPDATE or
\* DELETE left in the persisted queue still names t.
C5_QueuedReferencesRewritten ==
    [][finishes =>
          \A t \in DOMAIN returned'.tempTaskMappings :
              \A i \in 1..Len(offlineQueue') :
                  offlineQueue'[i].type # "CREATE" => offlineQueue'[i].data.id # t]_vars


\* the positions of the cached tasks with the given id
positionsOf(tasks, taskId) == {i \in 1..Len(tasks) : tasks[i]._id = taskId}

\* C6: createTaskOffline puts exactly one task, with a temporary id, in front
\* of the cache and its addToOfflineQueue writes one CREATE for that id at
\* the tail of the queue; when a pass over that single CREATE ends with
\* createTask answered by server id p, the cached entry has id p, no cached
\* entry has the temporary id, and the persisted queue is empty.
C6_OfflineCreateThenDrain ==
    [][/\ \A c \in Callers :
            ( /\ calls[c].pc = "idle"
              /\ calls'[c].pc = "enq"
              /\ calls'[c].operation.type = "CREATE" )
            => /\ Len(cachedTasks') = Len(cachedTasks) + 1
               /\ Tail(cachedTasks') = cachedTasks
               /\ cachedTasks'[1]._id = calls'[c].operation.data.tempId
               /\ cachedTasks'[1]._id[1] = "temp"
       /\ \A c \in Callers :
            ( /\ calls[c].pc = "enq"
              /\ calls'[c].pc = "idle"
              /\ calls[c].operation.type = "CREATE" )
            => /\ Len(offlineQueue') = Len(calls[c].queue) + 1
               /\ offlineQueue'[Len(offlineQueue')].type = "CREATE"
               /\ offlineQueue'[Len(offlineQueue')].data.tempId
                     = calls[c].operation.data.tempId
               /\ Cardinality({i \in 1..Len(offlineQueue') :
                                 offlineQueue'[i].uid = calls[c].uid}) = 1
       /\ ( /\ finishes
            /\ Len(returned'.queue) = 1
            /\ returned'.queue[1].type = "CREATE"
            /\ returned'.res = <<"ok">>
            /\ returned'.queue[1].data.tempId \in cachedIds )
          => LET t == returned'.queue[1].data.tempId
                 p == SrvId(Len(server'))
             IN /\ positionsOf(cachedTasks', t) = {}
                /\ positionsOf(cachedTasks', p) = positionsOf(cachedTasks, t)
                /\ Len(cachedTasks') = Len(cachedTasks)
                /\ offlineQueue' = <<>>]_vars

\* C6 witness: a pass over a single CREATE has just ended in success, the
\* cache holds the server id it was given and the queue is empty.
C6_Witness ==
    /\ returned.pc = "done"
    /\ Len(returned.queue) = 1
    /\ returned.queue[1].type = "CREATE"
    /\ returned.res = <<"ok">>
    /\ returned.tempTaskMappings[returned.queue[1].data.tempId] \in cachedIds
    /\ returned.queue[1].data.tempId \notin cachedIds
    /\ offlineQueue = <<>>

\* C7: the final write of a pass removes an operation of its snapshot from
\* the persisted queue only if the remote call made for that same operation
\* returned success, and the operations whose replay failed are in the queue
\* after the pass in their original order.
C7_RemovedOnlyAfterSuccess ==
    [][finishes =>
          /\ \A j \in 1..Len(returned'.queue) :
                ( /\ returned'.queue[j].uid \in uidsOf(offlineQueue)
                  /\ returned'.queue[j].uid \notin uidsOf(offlineQueue') )
                => returned'.res[j] = "ok"
          /\ Len(returned'.successfulOperations) > 0
                => offlineQueue' = SelectSeq(returned'.queue,
                                      LAMBDA op : \E j \in 1..Len(returned'.res) :
                                          returned'.queue[j].uid = op.uid
                                          /\ returned'.res[j] = "fail")]_vars

\* C8: after enqueue calls made one after another on the empty queue, with
\* no pass rewriting the queue, what getOfflineQueue reloads is the enqueued
\* operations (as JSON carries them) in enqueue order, as soon as the last
\* call has returned.
C8_QueueDurableInOrder ==
    (sequential /\ \A c \in Callers : calls[c].pc = "idle")
    => getOfflineQueue(offlineQueue) = jsonQueue(enqLog)

\* C8 witness: two awaited enqueues, one of them a CREATE carrying a Date
C8_Witness ==
    /\ sequential
    /\ \A c \in Callers : calls[c].pc = "idle"
    /\ Len(enqLog) = 2
    /\ \E i \in 1..2 : enqLog[i].type = "CREATE"
    /\ Len(getOfflineQueue(offlineQueue)) = 2

\* C9: a failed replay does not end the pass: while a pass is suspended the
\* call for the next unattempted entry is in flight, and a pass that has
\* ended has made the replay call of every entry that follows a failed one
\* and concerns another task id.
C9_FailureDoesNotStopPass ==
    \A pass \in observed :
        /\ pass.pc = "await" =>
              /\ pass.i = Len(pass.res) + 1
              /\ pass.i <= Len(pass.queue)
        /\ pass.pc = "done" =>
              \A j \in 1..Len(pass.res) :
                  \A k \in (j + 1)..Len(pass.queue) :
                      ( /\ pass.res[j] = "fail"
                        /\ opTaskId(pass.queue[k]) # opTaskId(pass.queue[j]) )
                      => k <= Len(pass.res)

\* C9 witness: a pass has just ended in which a replay failed and a later
\* entry for another task id was replayed
C9_Witness ==
    /\ returned.pc = "done"
    /\ \E j \in 1..Len(returned.res) :
          \E k \in (j + 1)..Len(returned.res) :
              /\ returned.res[j] = "fail"
              /\ opTaskId(returned.queue[k]) # opTaskId(returned.queue[j])

\* C10: applying the mappings of a pass to the cache twice gives the same
\* cache as applying them once.
C10_ReconcileIdempotent ==
    \A pass \in observed :
        started(pass) =>
            updateCachedTasksWithRealIds(
                updateCachedTasksWithRealIds(cachedTasks, pass.tempTaskMappings),
                pass.tempTaskMappings)
            = updateCachedTasksWithRealIds(cachedTasks, pass.tempTaskMappings)

\* C10 witness: a pass holds a mapping for a temporary id that is in the cache
C10_Witness ==
    \E pass \in observed :
        /\ started(pass)
        /\ \E t \in DOMAIN pass.tempTaskMappings : t \in cachedIds

\* C11: no two tasks of the local cache share an _id.
C11_CacheIdsUnique ==
    \A i, j \in 1..Len(parseCachedTasks(cachedTasks)) :
        i # j => cachedTasks[i]._id # cachedTasks[j]._id


\* ----------------------------------------------------------------- ranking
\* utils/taskSorting.ts (client) and Task.getSmartSortedTasks (server).
\* Instants are whole hours; RankNow is the value of new Date() during a
\* ranking, the same for both implementations.
MaxTasks == 2                  \* tasks in the collection that is ranked
RankNow == 100
HoursPerDay == 24              \* 1000 * 60 * 60 * 24 ms

Statuses == {"pending", "in_progress", "completed"}
Priorities == {"low", "medium", "high", "urgent"}   \* "urgent" is outside TaskPriority
DueDates == {RankNow - 1, RankNow, RankNow + 1, RankNow + 48}
\* timestamps: true.  A document created long ago and last saved two hours
\* ago, and one created and last saved within the last hour.
Timestamps == {[createdAt |-> RankNow - 100, updatedAt |-> RankNow - 2],
               [createdAt |-> RankNow - 1, updatedAt |-> RankNow - 1]}

\* the documents of the collection; _id is given by the position in it
RankedTasks ==
    [status : Statuses, priority : Priorities, dueDate : DueDates,
     timestamps : Timestamps]

Collections ==
    UNION {[1..n -> RankedTasks] : n \in 0..MaxTasks}

withIds(docs) ==
    [i \in 1..Len(docs) |->
        [_id |-> i, status |-> docs[i].status, priority |-> docs[i].priority,
         dueDate |-> docs[i].dueDate, createdAt |-> docs[i].timestamps.createdAt,
         updatedAt |-> docs[i].timestamps.updatedAt]]

\* Math.ceil(x / d) for d > 0 (ceil of a negative fraction is -0, which === 0)
ceilDiv(x, d) == -((-x) \div d)

\* taskSorting.ts, lines 11-18
getPriorityScore(priority) ==
    CASE priority = "high" -> 3
      [] priority = "medium" -> 2
      [] priority = "low" -> 1
      [] OTHER -> 1

\* taskSorting.ts, lines 23-34
getUrgencyScore(dueDate) ==
    LET diffInDays == ceilDiv(dueDate - RankNow, HoursPerDay) IN
    CASE diffInDays < 0 -> 10
      [] diffInDays = 0 -> 8
      [] diffInDays = 1 -> 6
      [] diffInDays \in 2..3 -> 4
      [] diffInDays \in 4..7 -> 2
      [] OTHER -> 1

\* taskSorting.ts, lines 39-48
getRecencyScore(createdAt) ==
    LET diffInHours == RankNow - createdAt IN
    CASE diffInHours <= 1 -> 5
      [] diffInHours <= 24 -> 3
      [] diffInHours <= 72 -> 2
      [] OTHER -> 1

\* The composite score p * 0.4 + u * 0.5 + r * 0.1 is a double.  Its exact
\* value is (4p + 5u + r) / 10, and the double computed by the three
\* products and two sums is that value's nearest double, or the double just
\* above or just below it.  The triples <<p, u, r>> for which it is not the
\* nearest double:
roundsUp ==
    {<<1, 1, 3>>, <<1, 8, 2>>, <<1, 10, 2>>, <<2, 1, 1>>, <<2, 2, 1>>, <<3, 1, 1>>,
     <<3, 1, 2>>, <<3, 2, 1>>, <<3, 2, 2>>, <<3, 4, 1>>, <<3, 4, 2>>}

roundsDown == {<<1, 2, 2>>, <<2, 4, 3>>, <<2, 8, 1>>, <<2, 10, 1>>}

\* taskSorting.ts, lines 64-66: the score, on a scale that keeps the order
\* of the doubles (three units per tenth, one unit per rounding step)
compositeScore(task) ==
    LET p == getPriorityScore(task.priority)
        u == getUrgencyScore(task.dueDate)
        r == getRecencyScore(task.createdAt)
    IN 3 * (4 * p + 5 * u + r)
       + (IF <<p, u, r>> \in roundsUp THEN 1
          ELSE IF <<p, u, r>> \in roundsDown THEN -1 ELSE 0)

\* a comparator that tests the first task only: a completed task is put
\* after any other, completed ones included
compareTasks_noCompletedBranch(a, b) ==
    IF a.status = "completed" THEN 1
    ELSE IF b.status = "completed" THEN -1
    ELSE compositeScore(b) - compositeScore(a)

\* taskSorting.ts, lines 54-73: the comparator given to sort
compareTasks(a, b) ==
    IF a.status = "completed" /\ b.status # "completed" THEN 1
    ELSE IF b.status = "completed" /\ a.status # "completed" THEN -1
    ELSE IF a.status = "completed" /\ b.status = "completed"
         THEN b.updatedAt - a.updatedAt
    ELSE compositeScore(b) - compositeScore(a)

\* Array.prototype.sort is stable: an element goes behind every element
\* already placed that does not compare greater than it
insertTask(placed, t) ==
    LET behind == {i \in 1..Len(placed) : compareTasks(placed[i], t) > 0}
        k == IF behind = {} THEN Len(placed) + 1
             ELSE CHOOSE i \in behind : \A j \in behind : i <= j
    IN SubSeq(placed, 1, k - 1) \o <<t>> \o SubSeq(placed, k, Len(placed))

RECURSIVE sortFrom(_, _)
sortFrom(placed, rest) ==
    IF rest = <<>> THEN placed
    ELSE sortFrom(insertTask(placed, Head(rest)), Tail(rest))

\* taskSorting.ts, lines 53-74
smartSortTasks(list) == sortFrom(<<>>, list)

\* Task.ts, lines 103-112: $switch with default 2
priorityScore(priority) ==
    CASE priority = "high" -> 3
      [] priority = "medium" -> 2
      [] priority = "low" -> 1
      [] OTHER -> 2

\* Task.ts, lines 114-125: urgencyScore is 10 for dueDate <= now and
\* 86400000 / (dueDate - now) otherwise, a fraction kept as numerator and
\* denominator (in hours: HoursPerDay / (dueDate - now))
urgencyNum(doc) == IF doc.dueDate <= RankNow THEN 10 ELSE HoursPerDay
urgencyDen(doc) == IF doc.dueDate <= RankNow THEN 1 ELSE doc.dueDate - RankNow

\* Task.ts, lines 131-137: smartScore = priorityScore * 2 + urgencyScore * 3
\* + (now - createdAt) / 86400000, over the denominator smartDen.  (The
\* server computes it in doubles; the fractions here are exact.)
smartDen(doc) == HoursPerDay * urgencyDen(doc)
smartNum(doc) ==
    2 * priorityScore(doc.priority) * smartDen(doc)
    + 3 * urgencyNum(doc) * HoursPerDay
    + (RankNow - doc.createdAt) * urgencyDen(doc)

\* smartScore of a is greater than that of b
scoreAbove(a, b) == smartNum(a) * smartDen(b) > smartNum(b) * smartDen(a)

\* BSON orders strings by their bytes
statusKey(status) ==
    CASE status = "completed" -> 1
      [] status = "in_progress" -> 2
      [] OTHER -> 3

\* Task.ts, lines 141-145: $sort {status: 1, smartScore: -1, createdAt: -1}
\* puts a before b
sortsBefore(a, b) ==
    \/ statusKey(a.status) < statusKey(b.status)
    \/ /\ statusKey(a.status) = statusKey(b.status)
       /\ \/ scoreAbove(a, b)
          \/ /\ ~scoreAbove(b, a)
             /\ a.createdAt > b.createdAt

\* Task.ts, lines 90-148: the orders the aggregation may return ($sort
\* leaves the order of documents with equal keys open)
getSmartSortedTasks(docs) ==
    {[i \in 1..Len(docs) |-> docs[f[i]]] : f \in
        {g \in Permutations(1..Len(docs)) :
            \A i, j \in 1..Len(docs) : i < j => ~sortsBefore(docs[g[j]], docs[g[i]])}}

\* a collection is handed to the two rankings
InitRanking ==
    /\ InitDevice
    /\ collection \in {withIds(docs) : docs \in Collections}
    /\ sorted = <<>>
    /\ aggregated = <<>>

deviceVars == <<now, offlineQueue, cachedTasks, tempTasks, isOnline, syncInterval,
                server, calls, passes, returned, opCount, enqLog, sequential,
                stateTasks, timers, effect>>

\* the task list screen ranks the collection on the device
rankOnClient ==
    /\ sorted = <<>>
    /\ sorted' = smartSortTasks(collection)
    /\ UNCHANGED <<collection, aggregated, deviceVars>>

\* GET /api/tasks ranks the collection on the server
rankOnServer ==
    /\ aggregated = <<>>
    /\ aggregated' \in getSmartSortedTasks(collection)
    /\ UNCHANGED <<collection, sorted, deviceVars>>

NextRanking == rankOnClient \/ rankOnServer

SpecRanking == InitRanking /\ [][NextRanking]_vars

\* the client ranking has been computed
clientRanked == Len(collection) > 0 /\ Len(sorted) = Len(collection)

\* the server ranking has been computed
serverRanked == Len(collection) > 0 /\ Len(aggregated) = Len(collection)

C13_ServerCompletedLast ==
    serverRanked =>
        \A i, j \in 1..Len(aggregated) :
            (i < j /\ aggregated[i].status = "completed")
            => aggregated[j].status = "completed"

\* both tasks are not completed, a is due strictly before now and b after now
overdueAndFuture(a, b) ==
    /\ a.status # "completed"
    /\ b.status # "completed"
    /\ a.dueDate < RankNow
    /\ b.dueDate > RankNow

\* C14: in the client ranking and in the server ranking, a task that is not
\* completed and is due strictly before now is in front of every task that
\* is not completed and is due after now.
C14_OverdueBeforeFuture ==
    /\ clientRanked =>
          \A i, j \in 1..Len(sorted) :
              overdueAndFuture(sorted[i], sorted[j]) => i < j
    /\ serverRanked =>
          \A i, j \in 1..Len(aggregated) :
              overdueAndFuture(aggregated[i], aggregated[j]) => i < j

\* the server's urgencyScore of a is greater than that of b
urgencyAbove(a, b) == urgencyNum(a) * urgencyDen(b) > urgencyNum(b) * urgencyDen(a)

\* C15: of two tasks that are not completed, the one with the strictly
\* higher urgency score is not ordered after the other, in the client
\* ranking and in the server ranking.
C15_UrgencyDominates ==
    /\ clientRanked =>
          \A i, j \in 1..Len(sorted) :
              ( /\ i < j
                /\ sorted[i].status # "completed"
                /\ sorted[j].status # "completed" )
              => getUrgencyScore(sorted[j].dueDate) <= getUrgencyScore(sorted[i].dueDate)
    /\ serverRanked =>
          \A i, j \in 1..Len(aggregated) :
              ( /\ i < j
                /\ aggregated[i].status # "completed"
                /\ aggregated[j].status # "completed" )
              => ~urgencyAbove(aggregated[j], aggregated[i])

\* C16: a task whose priority is none of low, medium, high is ranked with
\* the priority score 2 by the client and by the server.
C16_UnknownPriorityIsMedium ==
    \A i \in 1..Len(collection) :
        collection[i].priority \notin {"low", "medium", "high"}
        => /\ clientRanked => getPriorityScore(collection[i].priority) = 2
           /\ serverRanked => priorityScore(collection[i].priority) = 2

\* C17: every task due at or before now has urgency 10 in the client and in
\* the server ranking, and every task due after now has an urgency below 10.
C17_OverdueHasMaxUrgency ==
    \A i \in 1..Len(collection) :
        LET t == collection[i] IN
        /\ clientRanked =>
              IF t.dueDate <= RankNow THEN getUrgencyScore(t.dueDate) = 10
              ELSE getUrgencyScore(t.dueDate) < 10
        /\ serverRanked =>
              IF t.dueDate <= RankNow
              THEN urgencyNum(t) = 10 * urgencyDen(t)
              ELSE urgencyNum(t) < 10 * urgencyDen(t)

\* the list in another order
permuted(list, f) == [i \in 1..Len(list) |-> list[f[i]]]

\* C18: smartSortTasks returns the same sequence for every order in which
\* the same tasks are given.
C18_OrderIndependent ==
    clientRanked =>
        \A f \in Permutations(1..Len(collection)) :
            smartSortTasks(permuted(collection, f)) = sorted

\* C19: for the same collection and the same now, smartSortTasks and
\* getSmartSortedTasks return the same order.
C19_ClientServerAgree ==
    (clientRanked /\ serverRanked) => sorted = aggregated


\* ------------------------------------------------- task controller (server)
\* the bodies of PUT /api/tasks/:id: title, dueDate and status, each optional
NoStatus == "undefined"
UpdateBodies ==
    [title : UpdateTitles \cup {NoTitle},
     dueDate : {NoDate} \cup {IsoStr(v) : v \in Instants},
     status : Statuses \cup {NoStatus}]

\* part_001, lines 60-98: POST /api/tasks (new Task(...).save())
createTask(taskData) ==
    /\ Len(server) < MaxServer
    /\ server' = apiCreateTask(server, taskData, "ok").server
    /\ UNCHANGED <<now, offlineQueue, cachedTasks, tempTasks, isOnline, syncInterval,
                   calls, passes, returned, opCount, enqLog, sequential,
                   stateTasks, timers, effect, rankVars>>

\* part_001, lines 233-271: PUT /api/tasks/:id.  findOneAndUpdate writes the
\* fields of the body and runs no save middleware.
updateTask(id, updateData) ==
    /\ existsOnServer(server, id)
    /\ server' = [server EXCEPT ![id[2]] =
                    [@ EXCEPT !.title = IF updateData.title = NoTitle THEN @
                                        ELSE updateData.title,
                              !.dueDate = IF updateData.dueDate = NoDate THEN @
                                          ELSE updateData.dueDate.v,
                              !.status = IF updateData.status = NoStatus THEN @
                                         ELSE updateData.status]]
    /\ UNCHANGED <<now, offlineQueue, cachedTasks, tempTasks, isOnline, syncInterval,
                   calls, passes, returned, opCount, enqLog, sequential,
                   stateTasks, timers, effect, rankVars>>

\* part_001, lines 277-309: PATCH /api/tasks/:id/complete
\* (findOneAndUpdate {status: completed}, no save middleware)
completeTask(id) ==
    /\ existsOnServer(server, id)
    /\ server' = [server EXCEPT ![id[2]].status = "completed"]
    /\ UNCHANGED <<now, offlineQueue, cachedTasks, tempTasks, isOnline, syncInterval,
                   calls, passes, returned, opCount, enqLog, sequential,
                   stateTasks, timers, effect, rankVars>>

\* part_001, lines 315-343: DELETE /api/tasks/:id
deleteTask(id) ==
    /\ existsOnServer(server, id)
    /\ server' = apiDeleteTask(server, id, "ok").server
    /\ UNCHANGED <<now, offlineQueue, cachedTasks, tempTasks, isOnline, syncInterval,
                   calls, passes, returned, opCount, enqLog, sequential,
                   stateTasks, timers, effect, rankVars>>

serverIds == {SrvId(n) : n \in 1..Len(server)}

NextServer ==
    \/ \E taskData \in TaskForms : createTask(taskData)
    \/ \E id \in serverIds, updateData \in UpdateBodies : updateTask(id, updateData)
    \/ \E id \in serverIds : completeTask(id)
    \/ \E id \in serverIds : deleteTask(id)

SpecServer == Init /\ [][NextServer]_vars

\* C20: every stored task has a completedAt if and only if its status is
\* completed.
C20_CompletedAtIffCompleted ==
    \A n \in 1..Len(server) :
        server[n].alive =>
            (server[n].completedAt # "null" <=> server[n].status = "completed")


\* ------------------------------------------- sync engine: further properties
\* the step puts a remote call in flight: a pass is suspended on a call it
\* was not suspended on before
startsRemoteCall ==
    \E pass \in BagToSet(passes') : CopiesIn(pass, passes') > CopiesIn(pass, passes)

\* C22: while the engine is offline no remote call is started: a pass in
\* progress issues no call for the remaining entries of its snapshot, and no
\* interval tick or forceSyncNow starts a drain.
C22_NoRemoteCallWhileOffline ==
    [][(~isOnline /\ ~isOnline') => ~startsRemoteCall]_vars

\* C25: the operations of the persisted queue have pairwise distinct ids that
\* increase with their position in the queue.
C25_QueueIdsDistinctIncreasing ==
    \A i, j \in 1..Len(getOfflineQueue(offlineQueue)) :
        i < j => offlineQueue[i].id < offlineQueue[j].id

\* C28: when a pass ends in which the remote turned down no request naming an
\* existing task, a DELETE of a temporary id that was in its snapshot is no
\* longer queued, and the task a CREATE of the same snapshot made for that
\* temporary id is not on the server.
C28_CreateThenDeleteLeavesNothing ==
    [][(finishes /\ ~returned'.refused) =>
          \A k \in 1..Len(returned'.queue) :
              ( /\ returned'.queue[k].type = "DELETE"
                /\ returned'.queue[k].data.id[1] = "temp" )
              => /\ returned'.queue[k].uid \notin uidsOf(offlineQueue')
                 /\ \A t \in DOMAIN returned'.tempTaskMappings :
                       t = returned'.queue[k].data.id
                       => ~server'[returned'.tempTaskMappings[t][2]].alive]_vars

\* C26: no two documents of the server were made by replays of the same
\* enqueued CREATE.
C26_CreateAppliedAtMostOnce ==
    \A m, n \in 1..Len(server) :
        (m # n /\ server[m].uid # 0) => server[m].uid # server[n].uid

\* C27: when a pass ends that confirmed the CREATE of temporary id t, neither
\* the persisted cache nor state.tasks holds t any more.
C27_TempIdReplacedEverywhere ==
    [][finishes =>
          \A t \in DOMAIN returned'.tempTaskMappings :
              /\ t \notin {task._id : task \in Range(parseCachedTasks(cachedTasks'))}
              /\ t \notin Range(stateTasks')]_vars

\* C21: a connectivity event that takes the engine from offline to online
\* makes performSync call processOfflineQueue once, which starts a pass over
\* the stored queue unless the queue is empty; a connectivity event that
\* reports online while the engine is online calls it not at all and starts
\* no pass.
C21_OnlineTransitionStartsDrain ==
    [][/\ (~isOnline /\ isOnline') =>
            /\ effect'.drains = 1
            /\ passes' = IF Len(getOfflineQueue(offlineQueue)) = 0 THEN passes
                         ELSE suspend(passes, startPass(offlineQueue))
       /\ (effect'.event = "connectivity" /\ isOnline /\ isOnline') =>
            /\ effect'.drains = 0
            /\ passes' = passes]_vars

\* C21 witness: the first online event found a queued operation and its
\* replay call is in flight
C21_Witness ==
    /\ effect.event = "connectivity"
    /\ effect.drains = 1
    /\ isOnline
    /\ BagCardinality(passes) = 1
    /\ \E pass \in BagToSet(passes) : pass.i = 1 /\ pass.queue = offlineQueue

\* C29: at most one interval is live, and one is live exactly when the last
\* connectivity event reported online.
C29_OneTimerIffOnline ==
    /\ timers <= 1
    /\ timers = 1 <=> isOnline
    /\ syncInterval <=> timers = 1

\* C29 witness: an event reporting online was delivered while the engine was
\* online (as to a second listener) and one interval is live
C29_Witness ==
    /\ effect.event = "connectivity"
    /\ effect.drains = 0
    /\ isOnline
    /\ timers = 1

\* C30: updateTaskOffline called with an id the cache does not hold throws
\* 'Task not found' and leaves the cache, the queue and the temp-task store
\* as they were; no UPDATE is handed to addToOfflineQueue.
C30_UpdateOfUnknownIdChangesNothing ==
    [][\A c \in Callers, taskId \in nameableIds, updates \in UpdateForms :
          (updateTaskOffline(c, taskId, updates) /\ taskId \notin cachedIds)
          => /\ effect'.error = "Task not found"
             /\ UNCHANGED <<cachedTasks, offlineQueue, tempTasks, calls>>]_vars

\* C30 witness: a call has just thrown 'Task not found' for an id that
\* state.tasks still shows and the cache does not hold
C30_Witness ==
    /\ effect.error = "Task not found"
    /\ Range(stateTasks) \ cachedIds # {}
    /\ cachedTasks # <<>>


\* ------------------------------------------------ failing storage writes
\* AsyncStorage.setItem can reject (storage full, I/O error).  The actions
\* below are the offline mutations in which one write rejects.
StorageFailure == [NoEffect EXCEPT !.error = "storage", !.writeFailed = TRUE]

\* createTaskOffline, lines 89-99 and 110-113: the write of key rejects; the
\* catch rethrows.  When the cache write rejects the temp-task store has
\* already been written.
createTaskOfflineRejected(c, taskData, clock, key) ==
    /\ freeRecord(c)
    /\ opCount < MaxOps
    /\ dateNow(clock)
    /\ tempTasks' = IF key = "cachedTasks"
                    THEN Append(getTempTasks(tempTasks), newTask(taskData, clock))
                    ELSE tempTasks
    /\ opCount' = opCount + 1
    /\ effect' = StorageFailure
    /\ returned' = IdlePass
    /\ UNCHANGED rankVars
    /\ UNCHANGED <<offlineQueue, cachedTasks, isOnline, syncInterval, server, calls,
                   passes, enqLog, sequential, stateTasks, timers>>

\* updateTaskOffline, lines 134 and 147-150: the cache write rejects
updateTaskOfflineRejected(c, taskId, updates) ==
    /\ freeRecord(c)
    /\ opCount < MaxOps
    /\ findIndex(parseCachedTasks(cachedTasks), taskId) # 0
    /\ opCount' = opCount + 1
    /\ effect' = StorageFailure
    /\ returned' = IdlePass
    /\ UNCHANGED rankVars
    /\ UNCHANGED <<now, offlineQueue, cachedTasks, tempTasks, isOnline, syncInterval,
                   server, calls, passes, enqLog, sequential, stateTasks, timers>>

\* deleteTaskOffline, lines 163 and 172-175: the cache write rejects
deleteTaskOfflineRejected(c, taskId) ==
    /\ freeRecord(c)
    /\ opCount < MaxOps
    /\ opCount' = opCount + 1
    /\ effect' = StorageFailure
    /\ returned' = IdlePass
    /\ UNCHANGED rankVars
    /\ UNCHANGED <<now, offlineQueue, cachedTasks, tempTasks, isOnline, syncInterval,
                   server, calls, passes, enqLog, sequential, stateTasks, timers>>

\* addToOfflineQueue, lines 33 and 36-38: the queue write rejects; the catch
\* logs and the call returns, so the offline mutation that awaited it
\* returns its task and the thunk is fulfilled
addToOfflineQueueRejected(c, clock) ==
    /\ calls[c].pc = "enq"
    /\ dateNow(clock)
    /\ calls' = [calls EXCEPT ![c] = IdleCall]
    /\ stateTasks' = fulfilled(stateTasks, calls[c].operation)
    /\ effect' = [NoEffect EXCEPT !.writeFailed = TRUE]
    /\ sequential' = FALSE
    /\ enqLog' = <<>>
    /\ returned' = IdlePass
    /\ UNCHANGED rankVars
    /\ UNCHANGED <<offlineQueue, cachedTasks, tempTasks, isOnline, syncInterval,
                   server, passes, opCount, timers>>

NextStorage ==
    \/ Next
    \/ \E c \in Callers, taskData \in TaskForms, clock \in 0..MaxClock,
          key \in {"tempTasks", "cachedTasks"} :
          createTaskOfflineRejected(c, taskData, clock, key)
    \/ \E c \in Callers, taskId \in nameableIds, updates \in UpdateForms :
          updateTaskOfflineRejected(c, taskId, updates)
    \/ \E c \in Callers, taskId \in nameableIds : deleteTaskOfflineRejected(c, taskId)
    \/ \E c \in Callers, clock \in 0..MaxClock : addToOfflineQueueRejected(c, clock)

SpecStorage == Init /\ [][NextStorage]_vars

\* C24: an offline mutation in which a storage write fails, the write of the
\* queue entry included, reports the failure to its caller.
C24_StorageFailureIsReported ==
    [][effect'.writeFailed => effect'.error # "none"]_vars


\* ------------------------------------------------------- periodic re-sync
\* The user works offline, one mutation after the other; the engine then
\* comes online and stays online: no connectivity-lost event arrives and
\* nobody calls forceSyncNow, so passes are started by the first online event
\* and, after it, by the interval alone.  The interval keeps firing and
\* every remote call returns.
mayMutate == ~isOnline /\ \A c \in Callers : calls[c].pc = "idle"

NextRetry ==
    \/ \E c \in Callers, taskData \in TaskForms, clock \in 0..MaxClock :
          mayMutate /\ createTaskOffline(c, taskData, clock)
    \/ \E c \in Callers, taskId \in nameableIds, updates \in UpdateForms :
          mayMutate /\ updateTaskOffline(c, taskId, updates)
    \/ \E c \in Callers, taskId \in nameableIds :
          mayMutate /\ deleteTaskOffline(c, taskId)
    \/ \E c \in Callers, clock \in 0..MaxClock : addToOfflineQueue(c, clock)
    \/ netInfoListener(TRUE) /\ onePass
    \/ intervalTick /\ onePass
    \/ \E pass \in BagToSet(passes), outcome \in Outcomes :
          processOfflineQueue(pass, outcome)

SpecRetry ==
    /\ Init
    /\ [][NextRetry]_vars
    /\ WF_vars(intervalTick /\ onePass)
    /\ WF_vars(\E pass \in BagToSet(passes), outcome \in Outcomes :
                  processOfflineQueue(pass, outcome))

\* C23: while the engine is online, an interval tick with operations in the
\* stored queue starts a pass over all of them, with no connectivity change,
\* and such a tick comes whenever operations are queued and no pass is
\* running; every pass ends; and an operation the remote accepted in a pass
\* is not in the queue the pass leaves.
C23_RetriedByIntervalUntilAccepted ==
    /\ [][( /\ effect'.event = "none"
            /\ effect'.drains = 1
            /\ Len(getOfflineQueue(offlineQueue)) > 0 )
          => /\ isOnline /\ isOnline'
             /\ passes' = suspend(passes, startPass(offlineQueue))]_vars
    /\ [][finishes =>
             \A j \in 1..Len(returned'.res) :
                 returned'.res[j] = "ok" =>
                     returned'.queue[j].uid \notin uidsOf(offlineQueue')]_vars
    /\ (isOnline /\ Len(getOfflineQueue(offlineQueue)) > 0 /\ passes = EmptyBag)
          ~> (passes # EmptyBag)
    /\ (passes # EmptyBag) ~> (returned.pc = "done")

\* C23 witness: a pass started by the interval has just ended whose snapshot
\* was the second enqueued operation alone, i.e. what an earlier pass had left
\* after that operation's replay failed; this time the remote accepted it and
\* the queue is empty.
C23_Witness ==
    /\ isOnline
    /\ returned.pc = "done"
    /\ Len(returned.queue) = 1
    /\ returned.queue[1].uid = 2
    /\ returned.res = <<"ok">>
    /\ offlineQueue = <<>>

====
